---------------------------- MODULE Spec2Model ----------------------------
(***************************************************************************)
(* A model of monitor.py, the KKDash host-telemetry collector:             *)
(*   - get_cpu_info() and its process-wide state prev_cpu_times,           *)
(*   - get_memory_info(),                                                  *)
(*   - get_ufw_stats(),                                                    *)
(*   - main(): the scheduler loop that evaluates the nine probes, rewrites *)
(*     the output file and sleeps.                                         *)
(*                                                                         *)
(* Conventions.  A Python string that the program builds with ".1f" is     *)
(* modelled by the number it prints: [neg, tenths] is the text             *)
(* "<sign><tenths/10>.<tenths%10>%".  A Python str that the program takes  *)
(* apart (the "ip|port" key of get_ufw_stats) is a sequence of             *)
(* one-character strings.                                                  *)
(***************************************************************************)
EXTENDS Integers, Sequences, FiniteSets

(***************************************************************************)
(* Bounds of the model.                                                    *)
(***************************************************************************)
\* The cumulative counters of one /proc/stat line sum to at most MaxJiffies.
MaxJiffies == 3

(***************************************************************************)
(* Program constants.                                                      *)
(***************************************************************************)
\* REFRESH_INTERVAL, seconds.
REFRESH_INTERVAL == 5

\* The highest index of parts[] that get_cpu_info reads is 7: the line needs
\* eight counters (user nice system idle iowait irq softirq steal).
StatFields == 8

(***************************************************************************)
(* Number formatting.                                                      *)
(***************************************************************************)
Abs(n) == IF n < 0 THEN -n ELSE n

\* num/den (den > 0, num >= 0) in tenths, rounded to the nearest tenth, ties
\* to even: the digits f"{x:.1f}" prints for x = num/den.
RoundTenths(num, den) ==
    LET q == (num * 10) \div den
        r == (num * 10) % den
    IN  IF 2 * r > den \/ (2 * r = den /\ q % 2 = 1) THEN q + 1 ELSE q

\* f"{num/den:.1f}": the sign is printed whenever the value is negative, also
\* when the digits round to 0.0.
Fmt1(num, den) == [neg |-> num < 0, tenths |-> RoundTenths(Abs(num), den)]

(***************************************************************************)
(* get_cpu_info                                                            *)
(***************************************************************************)
RECURSIVE SumSeq(_)
SumSeq(s) == IF s = << >> THEN 0 ELSE s[1] + SumSeq(Tail(s))

\* What open('/proc/stat').readline() and the parse of it can give:
\*   "ioerror"    open/readline raises,
\*   "noprefix"   the line does not start with "cpu ",
\*   "nonnumeric" some token after "cpu" is not a float (float() raises),
\*   "counters"   the tokens parse; parts is the list of numbers.
\* Lines of StatFields-1 counters are the "too few fields" case.
StatLines ==
    { s \in UNION { [1..n -> 0..MaxJiffies] : n \in {StatFields - 1, StatFields} } :
        SumSeq(s) <= MaxJiffies }

StatReads ==
    { [kind |-> k, parts |-> << >>] : k \in {"ioerror", "noprefix", "nonnumeric"} }
    \cup { [kind |-> "counters", parts |-> s] : s \in StatLines }

\* The three subprocess queries that follow the sample: the model name, the
\* 'Processor' fallback (run only when the model name is empty) and nproc.
\* Each either returns text or raises.
CpuQueries ==
    { [model |-> "raise", processor |-> "unused", nproc |-> "unused"],
      [model |-> "empty", processor |-> "raise", nproc |-> "unused"],
      [model |-> "empty", processor |-> "text",  nproc |-> "raise"],
      [model |-> "empty", processor |-> "text",  nproc |-> "text"],
      [model |-> "text",  processor |-> "unused", nproc |-> "raise"],
      [model |-> "text",  processor |-> "unused", nproc |-> "text"] }

\* prev_cpu_times: None, or the pair (total_time, idle_time).
NoSample == [set |-> FALSE, total |-> 0, idle |-> 0]
Sample(total, idle) == [set |-> TRUE, total |-> total, idle |-> idle]

idle_time(parts) == parts[4] + parts[5]
non_idle_time(parts) == parts[1] + parts[2] + parts[3] + parts[6] + parts[7] + parts[8]
total_time(parts) == idle_time(parts) + non_idle_time(parts)

\* The usage string: "N/A" or a formatted percentage.
UsageNA == [na |-> TRUE, neg |-> FALSE, tenths |-> 0]
UsagePct(f) == [na |-> FALSE, neg |-> f.neg, tenths |-> f.tenths]

\* max(0, min(100, usage_pct)) for usage_pct = num/den, as a fraction.
Clamp(num, den) ==
    IF num > 100 * den THEN <<100, 1>>
    ELSE IF num < 0 THEN <<0, 1>>
    ELSE <<num, den>>

\* ComputeUsage without the max(0, min(100, ...)) of line 43.
ComputeUsage_NoClamp(prev, total, idle) ==
    IF prev.set /\ total - prev.total > 0
    THEN LET total_delta == total - prev.total
             idle_delta == idle - prev.idle
         IN  UsagePct(Fmt1((total_delta - idle_delta) * 100, total_delta))
    ELSE UsagePct(Fmt1(0, 1))

\* ComputeUsage with "if total_delta >= 0" on line 41: a zero delta divides
\* by zero and the call ends in the except clause; and with no "0.0%" for
\* the call that finds no previous sample.
ComputeUsage_NoZeroGuard(prev, total, idle) ==
    IF ~prev.set \/ total - prev.total = 0 THEN UsageNA
    ELSE IF total - prev.total > 0
    THEN LET total_delta == total - prev.total
             idle_delta == idle - prev.idle
             c == Clamp((total_delta - idle_delta) * 100, total_delta)
         IN  UsagePct(Fmt1(c[1], c[2]))
    ELSE UsagePct(Fmt1(0, 1))

\* Lines 35-43: the usage of a sample against the previous one.
ComputeUsage(prev, total, idle) ==
    IF prev.set /\ total - prev.total > 0
    THEN LET total_delta == total - prev.total
             idle_delta == idle - prev.idle
             c == Clamp((total_delta - idle_delta) * 100, total_delta)
         IN  UsagePct(Fmt1(c[1], c[2]))
    ELSE UsagePct(Fmt1(0, 1))

\* Whether lines 23-33 run to the end: the line is read, starts with "cpu ",
\* every token is a float and parts[7] exists.
SampleParsed(read) == read.kind = "counters" /\ Len(read.parts) >= StatFields

CpuFailure == [usage |-> UsageNA, model |-> "error", cores |-> "N/A"]

\* get_cpu_info with "prev_cpu_times = None" in its failure paths.
GetCpuInfo_ClearOnFailure(prev, read, q) ==
    IF ~SampleParsed(read)
    THEN [result |-> CpuFailure, prev |-> NoSample]
    ELSE LET total == total_time(read.parts)
             idle == idle_time(read.parts)
             usage == ComputeUsage(prev, total, idle)
             stored == Sample(total, idle)
         IN  IF q.model = "raise" \/ q.processor = "raise" \/ q.nproc = "raise"
             THEN [result |-> CpuFailure, prev |-> stored]
             ELSE [result |-> [usage |-> usage, model |-> "text", cores |-> "text"],
                   prev |-> stored]

\* get_cpu_info with the assignment of line 45 moved after the queries, so
\* that only a call that returns a usage stores its sample.
GetCpuInfo_StoreOnSuccess(prev, read, q) ==
    IF ~SampleParsed(read)
    THEN [result |-> CpuFailure, prev |-> prev]
    ELSE LET total == total_time(read.parts)
             idle == idle_time(read.parts)
             usage == ComputeUsage(prev, total, idle)
             stored == Sample(total, idle)
         IN  IF q.model = "raise" \/ q.processor = "raise" \/ q.nproc = "raise"
             THEN [result |-> CpuFailure, prev |-> prev]
             ELSE [result |-> [usage |-> usage, model |-> "text", cores |-> "text"],
                   prev |-> stored]

\* get_cpu_info() run on the given previous sample, /proc/stat read and
\* query outcomes: the returned dict and the new value of prev_cpu_times.
\* prev_cpu_times is assigned on line 45, before the queries of lines 48-52.
GetCpuInfo(prev, read, q) ==
    IF ~SampleParsed(read)
    THEN [result |-> CpuFailure, prev |-> prev]
    ELSE LET total == total_time(read.parts)
             idle == idle_time(read.parts)
             usage == ComputeUsage(prev, total, idle)
             stored == Sample(total, idle)
         IN  IF q.model = "raise" \/ q.processor = "raise" \/ q.nproc = "raise"
             THEN [result |-> CpuFailure, prev |-> stored]
             ELSE [result |-> [usage |-> usage, model |-> "text", cores |-> "text"],
                   prev |-> stored]


(***************************************************************************)
(* get_memory_info                                                         *)
(***************************************************************************)
\* Kilobytes per megabyte: the divisor of lines 139 and 140.
KbPerMb == 1024

\* MemTotal and MemAvailable are drawn in steps of half a megabyte, up to
\* MaxMemHalfMb steps.
MaxMemHalfMb == 10

MemKb == { (k * KbPerMb) \div 2 : k \in 0..MaxMemHalfMb }

\* What lines 129-137 can meet: /proc/meminfo cannot be read ("ioerror"); a
\* value that int() rejects ("badvalue"); or a parsed mapping in which
\* MemTotal and MemAvailable are each present or absent.
MemReads ==
    { [kind |-> k, has_total |-> FALSE, total_kb |-> 0, has_avail |-> FALSE, avail_kb |-> 0] :
        k \in {"ioerror", "badvalue"} }
    \cup { [kind |-> "parsed", has_total |-> FALSE, total_kb |-> 0,
            has_avail |-> ha, avail_kb |-> 0] : ha \in BOOLEAN }
    \cup { [kind |-> "parsed", has_total |-> TRUE, total_kb |-> t,
            has_avail |-> FALSE, avail_kb |-> 0] : t \in MemKb }
    \cup { [kind |-> "parsed", has_total |-> TRUE, total_kb |-> t,
            has_avail |-> TRUE, avail_kb |-> a] : t \in MemKb, a \in MemKb }

MemNotCalled == [called |-> FALSE, raised |-> FALSE, na |-> FALSE, total_mb |-> 0,
                 used_mb |-> 0, percent |-> [neg |-> FALSE, tenths |-> 0]]

\* {"total": "N/A", "used": "N/A", "percent": "0%"}
MemDefault == [called |-> TRUE, raised |-> FALSE, na |-> TRUE, total_mb |-> 0,
               used_mb |-> 0, percent |-> [neg |-> FALSE, tenths |-> 0]]

\* meminfo.get('MemAvailable', '0')
AvailKb(read) == IF read.has_avail THEN read.avail_kb ELSE 0

\* Whether the try body of lines 128-147 raises: the read fails, int() fails,
\* meminfo['MemTotal'] is a KeyError, or used_mb / total_mb divides by zero.
MemBodyRaises(read) ==
    \/ read.kind # "parsed"
    \/ ~read.has_total
    \/ read.total_kb \div KbPerMb = 0

\* get_memory_info(): the except clause of line 148 turns every exception of
\* the body into the default.
GetMemoryInfo(read) ==
    IF MemBodyRaises(read)
    THEN MemDefault
    ELSE LET total_mb == read.total_kb \div KbPerMb
             used_mb == (read.total_kb - AvailKb(read)) \div KbPerMb
         IN  [called |-> TRUE, raised |-> FALSE, na |-> FALSE, total_mb |-> total_mb,
              used_mb |-> used_mb, percent |-> Fmt1(used_mb * 100, total_mb)]

(***************************************************************************)
(* get_ufw_stats                                                           *)
(***************************************************************************)
\* At most MaxLines "[UFW BLOCK]" lines are drawn for one scan.
MaxLines == 2

\* The [:10] of lines 205 and 212.
TopN == 10

\* A log line is its whitespace-separated tokens; a token is KEY=value with a
\* value of non-whitespace characters.  The values below include one with
\* the character the program uses as its key separator.
SrcValues == { <<"a">>, <<"b">>, <<"a", "|", "b">> }
DptValues == { <<"2", "2">>, <<"8", "0">> }

UfwTokens ==
    { [key |-> "SRC", val |-> v] : v \in SrcValues }
    \cup { [key |-> "DPT", val |-> v] : v \in DptValues }

UfwLines == UNION { [1..n -> UfwTokens] : n \in 0..2 }

UfwLogs == UNION { [1..n -> UfwLines] : n \in 0..MaxLines }

\* "ufw status": its output contains "Status: active", or does not, or the
\* command raises.  "dmesg | grep | tail": lines, CalledProcessError (grep
\* found nothing), or another exception.
UfwInputsOver(logs) ==
    { [status |-> st, dmesg |-> dm, log |-> lg] :
        st \in {"active", "inactive", "raise"},
        dm \in {"lines", "nomatch", "raise"},
        lg \in logs }

UfwInputs == UfwInputsOver(UfwLogs)

\* re.search(r'KEY=([^\s]+)', line).group(1): the value of the first token
\* with that key; << >> stands for "no match".
RECURSIVE Search(_, _)
Search(key, line) ==
    IF line = << >> THEN << >>
    ELSE IF line[1].key = key /\ line[1].val # << >> THEN line[1].val
    ELSE Search(key, Tail(line))

\* f"{src}|{dpt}"
PairKey(src, dpt) == src \o <<"|">> \o dpt

\* str.split('|'): the list of the pieces between the separators.
RECURSIVE SplitBar(_, _)
SplitBar(str, piece) ==
    IF str = << >> THEN << piece >>
    ELSE IF str[1] = "|" THEN << piece >> \o SplitBar(Tail(str), << >>)
    ELSE SplitBar(Tail(str), Append(piece, str[1]))

\* d[k] = d.get(k, 0) + 1 on a dict, which keeps its keys in insertion order:
\* a sequence of [key, count].
RECURSIVE Bump(_, _)
Bump(d, k) ==
    IF d = << >> THEN << [key |-> k, count |-> 1] >>
    ELSE IF d[1].key = k THEN << [key |-> k, count |-> d[1].count + 1] >> \o Tail(d)
    ELSE << d[1] >> \o Bump(Tail(d), k)

\* Lines 188-202: the two tallies after the loop over the lines.
RECURSIVE TallyLines(_, _)
TallyLines(lines, acc) ==
    IF lines = << >> THEN acc
    ELSE LET src == Search("SRC", lines[1])
             dpt == Search("DPT", lines[1])
         IN  IF src # << >> /\ dpt # << >>
             THEN TallyLines(Tail(lines),
                             [pair_counts |-> Bump(acc.pair_counts, PairKey(src, dpt)),
                              port_counts |-> Bump(acc.port_counts, dpt)])
             ELSE TallyLines(Tail(lines), acc)

\* sorted(items, key=count, reverse=True): descending, and stable (equal
\* counts keep their order).  Insertion after every item of count >= c.
RECURSIVE InsertDesc(_, _)
InsertDesc(sorted, item) ==
    IF sorted = << >> THEN << item >>
    ELSE IF sorted[1].count >= item.count THEN << sorted[1] >> \o InsertDesc(Tail(sorted), item)
    ELSE << item >> \o sorted

RECURSIVE SortedDesc(_, _)
SortedDesc(items, acc) ==
    IF items = << >> THEN acc ELSE SortedDesc(Tail(items), InsertDesc(acc, items[1]))

\* s[:TopN]
Top(s) == SubSeq(s, 1, IF Len(s) < TopN THEN Len(s) ELSE TopN)

UfwNotCalled == [called |-> FALSE, active |-> FALSE, top_blocked |-> << >>, ports |-> << >>]

\* {"active": False, "top_blocked": [], "ports": {}}
UfwInactive == [called |-> TRUE, active |-> FALSE, top_blocked |-> << >>, ports |-> << >>]

\* Lines 207-209: "ip, port = p_str.split('|')" raises ValueError unless the
\* key splits in exactly two pieces.
UnpackRaises(top_pairs_raw) ==
    \E i \in 1..Len(top_pairs_raw) : Len(SplitBar(top_pairs_raw[i].key, << >>)) # 2

TopBlocked(top_pairs_raw) ==
    [ i \in 1..Len(top_pairs_raw) |->
        LET pieces == SplitBar(top_pairs_raw[i].key, << >>)
        IN  [ip |-> pieces[1], port |-> pieces[2], count |-> top_pairs_raw[i].count] ]

\* get_ufw_stats().  An exception of the status query counts as "not
\* active" (lines 167-174); CalledProcessError of the log query as no lines
\* (180-182); every other exception takes the outer except (219-220).
GetUfwStats(in) ==
    IF in.status # "active" THEN UfwInactive
    ELSE IF in.dmesg = "raise" THEN UfwInactive
    ELSE LET output == IF in.dmesg = "nomatch" THEN << >> ELSE in.log
             tally == TallyLines(output, [pair_counts |-> << >>, port_counts |-> << >>])
             top_pairs_raw == Top(SortedDesc(tally.pair_counts, << >>))
         IN  IF UnpackRaises(top_pairs_raw) THEN UfwInactive
             ELSE [called |-> TRUE, active |-> TRUE,
                   top_blocked |-> TopBlocked(top_pairs_raw),
                   ports |-> Top(SortedDesc(tally.port_counts, << >>))]

(***************************************************************************)
(* State                                                                   *)
(***************************************************************************)
VARIABLES
    prev_cpu_times,   \* the global of line 17
    cpu_result,       \* what the last get_cpu_info() call returned
    cpu_call,         \* what that call met: its kind, prev_cpu_times at entry,
                      \* the sample it parsed, whether it was the first to succeed
    cpu_any_ok,       \* some get_cpu_info() call has returned a usage
    cpu_last_parsed,  \* the sample of the latest call that read and parsed the line
    mem_read,         \* the /proc/meminfo read handed to get_memory_info()
    mem_result,       \* what get_memory_info() returned
    ufw_in,           \* the command outputs handed to get_ufw_stats()
    ufw_result,       \* what get_ufw_stats() returned
    pc,               \* where main() is
    cycle,            \* iterations of the while loop begun
    data,             \* the dict of lines 238-248, as far as it is evaluated
    file,             \* the file at DATA_FILE_PATH, as a reader sees it
    stdout,           \* what main() has printed
    clock,            \* seconds slept
    history,          \* how each finished iteration ended
    interrupt_at      \* where main() was when the latest KeyboardInterrupt came

cpu_vars == <<prev_cpu_times, cpu_result, cpu_call, cpu_any_ok, cpu_last_parsed>>
mem_vars == <<mem_read, mem_result>>
ufw_vars == <<ufw_in, ufw_result>>
main_vars == <<pc, cycle, data, file, stdout, clock, history, interrupt_at>>
vars == <<cpu_vars, mem_vars, ufw_vars, main_vars>>

(***************************************************************************)
(* Calls of the three probes on their own                                  *)
(***************************************************************************)
CpuNotCalled == [usage |-> UsageNA, model |-> "none", cores |-> "none"]
NoCall == [kind |-> "none", before |-> NoSample, sample |-> NoSample, first_ok |-> FALSE]

\* What a call met: "early_fail" is a failure of lines 23-33, "late_fail" a
\* failure of the queries of lines 48-52, "ok" the return of line 54.
CallKind(read, q) ==
    IF ~SampleParsed(read) THEN "early_fail"
    ELSE IF q.model = "raise" \/ q.processor = "raise" \/ q.nproc = "raise" THEN "late_fail"
    ELSE "ok"

ParsedSample(read) ==
    IF SampleParsed(read)
    THEN Sample(total_time(read.parts), idle_time(read.parts))
    ELSE NoSample

\* One call of get_cpu_info().
CallGetCpuInfo(read, q) ==
    LET r == GetCpuInfo(prev_cpu_times, read, q)
        kind == CallKind(read, q)
    IN  /\ prev_cpu_times' = r.prev
        /\ cpu_result' = r.result
        /\ cpu_call' = [kind |-> kind, before |-> prev_cpu_times,
                        sample |-> ParsedSample(read),
                        first_ok |-> (kind = "ok" /\ ~cpu_any_ok)]
        /\ cpu_any_ok' = (cpu_any_ok \/ kind = "ok")
        /\ cpu_last_parsed' = IF SampleParsed(read) THEN ParsedSample(read)
                              ELSE cpu_last_parsed

CpuStep ==
    /\ \E read \in StatReads, q \in CpuQueries : CallGetCpuInfo(read, q)
    /\ UNCHANGED <<mem_vars, ufw_vars, main_vars>>

CallGetMemoryInfo ==
    /\ ~mem_result.called
    /\ mem_result' = GetMemoryInfo(mem_read)
    /\ UNCHANGED <<mem_read, cpu_vars, ufw_vars, main_vars>>

CallGetUfwStats ==
    /\ ~ufw_result.called
    /\ ufw_result' = GetUfwStats(ufw_in)
    /\ UNCHANGED <<ufw_in, cpu_vars, mem_vars, main_vars>>

(***************************************************************************)
(* main()                                                                  *)
(***************************************************************************)
\* The while loop is followed for MaxCycles iterations.
MaxCycles == 2

\* At most MaxFaults probes of one iteration return their failure default.
MaxFaults == 1

CHECK_SERVICES == {"docker", "libvirtd", "smbd"}

\* The keys of the dict display of lines 238-248, in evaluation order.
NineKeys ==
    << "cpu", "memory", "disk", "mounts", "users", "services",
       "docker_containers", "system", "ufw" >>

KeyIndex(key) == CHOOSE i \in 1..Len(NineKeys) : NineKeys[i] = key

\* Where main() goes after the value of a key is evaluated: the next key, or
\* the open() of line 253.
AfterProbe(key) ==
    IF KeyIndex(key) < Len(NineKeys) THEN NineKeys[KeyIndex(key) + 1] ELSE "open"

ProbePoints == { NineKeys[i] : i \in 1..Len(NineKeys) }
WritePoints == {"open", "dump", "close"}

\* The statements inside the try block of lines 237-257.
TryPoints == ProbePoints \cup WritePoints \cup {"sleep"}

\* A value of the dict is kept by its shape: "value" (the probe's normal
\* result), "default" (its failure-shaped default) or "none" (Python None,
\* which get_docker_containers returns when docker is not installed).
WithKey(d, key, shape) ==
    [ k \in DOMAIN d \cup {key} |-> IF k = key THEN shape ELSE d[k] ]

Faults(d) == Cardinality({ k \in DOMAIN d : d[k] = "default" })

NoData == [ k \in {} |-> "value" ]

\* The file: absent, or holding what has reached it of the snapshot of
\* iteration ver: nothing ("empty"), a proper prefix ("partial"), all of it
\* ("complete").
NoFile == [exists |-> FALSE, ver |-> 0, content |-> "empty"]
FileOf(ver, content) == [exists |-> TRUE, ver |-> ver, content |-> content]

\* A probe value is evaluated and main() moves on.
Evaluated(key, shape) ==
    /\ Faults(WithKey(data, key, shape)) <= MaxFaults
    /\ data' = WithKey(data, key, shape)
    /\ pc' = AfterProbe(key)

\* An exception other than KeyboardInterrupt leaves the try block: line 261.
Raised ==
    /\ pc' = "except"
    /\ history' = Append(history, "error")

\* Line 235.
Start ==
    /\ pc = "start"
    /\ stdout' = Append(stdout, "started")
    /\ pc' = "cpu"
    /\ UNCHANGED <<cycle, data, file, clock, history, interrupt_at,
                   cpu_vars, mem_vars, ufw_vars>>

\* The /proc/stat reads drawn inside main(): those whose counters sum to at
\* most one.
SchedStatReads == { r \in StatReads : SumSeq(r.parts) <= 1 }

\* Line 239, the first statement of an iteration.
ProbeCpu ==
    /\ pc = "cpu"
    /\ cycle < MaxCycles
    /\ cycle' = cycle + 1
    /\ \E read \in SchedStatReads, q \in CpuQueries :
          LET r == GetCpuInfo(prev_cpu_times, read, q)
          IN  /\ prev_cpu_times' = r.prev
              /\ cpu_last_parsed' = IF SampleParsed(read) THEN ParsedSample(read)
                                    ELSE cpu_last_parsed
              /\ Faults(WithKey(NoData, "cpu", IF r.result.usage.na THEN "default" ELSE "value"))
                     <= MaxFaults
              /\ data' = WithKey(NoData, "cpu",
                                 IF r.result.usage.na THEN "default" ELSE "value")
    /\ pc' = AfterProbe("cpu")
    /\ UNCHANGED <<cpu_result, cpu_call, cpu_any_ok, file, stdout, clock, history,
                   interrupt_at, mem_vars, ufw_vars>>

\* Line 240.
ProbeMemory ==
    /\ pc = "memory"
    /\ \E read \in MemReads :
          Evaluated("memory", IF GetMemoryInfo(read).na THEN "default" ELSE "value")
    /\ UNCHANGED <<cycle, file, stdout, clock, history, interrupt_at,
                   cpu_vars, mem_vars, ufw_vars>>

\* get_disk_info, get_mount_info, get_logged_users, get_system_info: the
\* whole body is inside try/except Exception, which returns the default.
SimpleProbes == {"disk", "mounts", "users", "system"}

ProbeSimple(key) ==
    /\ pc = key
    /\ \E outcome \in {"returns", "raises"} :
          Evaluated(key, IF outcome = "raises" THEN "default" ELSE "value")
    /\ UNCHANGED <<cycle, file, stdout, clock, history, interrupt_at,
                   cpu_vars, mem_vars, ufw_vars>>

\* "systemctl is-active svc" for one service:
\*   "status"       check_output returns and decodes;
\*   "exit_text"    CalledProcessError, e.output decodes to text;
\*   "exit_empty"   CalledProcessError, e.output is empty: "inactive";
\*   "exit_binary"  CalledProcessError, e.output is not UTF-8: the decode of
\*                  line 99 raises inside the except clause, and no clause of
\*                  the same try statement catches it;
\*   "other"        another exception: "unknown".
ServiceOutcomes == {"status", "exit_text", "exit_empty", "exit_binary", "other"}

\* get_service_status(): whether it raises, and the shape of what it returns.
GetServiceStatus(outs) ==
    [raises |-> \E svc \in CHECK_SERVICES : outs[svc] = "exit_binary",
     shape |-> IF \A svc \in CHECK_SERVICES : outs[svc] \in {"status", "exit_text"}
               THEN "value" ELSE "default"]

\* Line 244.
ProbeServices ==
    /\ pc = "services"
    /\ \E outs \in [CHECK_SERVICES -> ServiceOutcomes] :
          LET r == GetServiceStatus(outs)
          IN  IF r.raises
              THEN Raised /\ UNCHANGED data
              ELSE Evaluated("services", r.shape) /\ UNCHANGED history
    /\ UNCHANGED <<cycle, file, stdout, clock, interrupt_at, cpu_vars, mem_vars, ufw_vars>>

\* Line 245: None when docker is not installed, the list, or [] on an exception.
ProbeDocker ==
    /\ pc = "docker_containers"
    /\ \E outcome \in {"not_installed", "returns", "raises"} :
          Evaluated("docker_containers",
                    IF outcome = "raises" THEN "default"
                    ELSE IF outcome = "not_installed" THEN "none" ELSE "value")
    /\ UNCHANGED <<cycle, file, stdout, clock, history, interrupt_at,
                   cpu_vars, mem_vars, ufw_vars>>

\* The firewall inputs drawn inside main(): logs of at most one line.
SchedUfwInputs == UfwInputsOver(UNION { [1..n -> UfwLines] : n \in 0..1 })

\* Line 247.  The failure default of get_ufw_stats is its "not active" result.
ProbeUfw ==
    /\ pc = "ufw"
    /\ \E in \in SchedUfwInputs :
          Evaluated("ufw", IF GetUfwStats(in).active THEN "value" ELSE "default")
    /\ UNCHANGED <<cycle, file, stdout, clock, history, interrupt_at,
                   cpu_vars, mem_vars, ufw_vars>>

\* Line 253: open(DATA_FILE_PATH, 'w') truncates the file, or raises and
\* leaves it as it was.
Open ==
    /\ pc = "open"
    /\ \/ /\ file' = FileOf(cycle, "empty")
          /\ pc' = "dump"
          /\ UNCHANGED history
       \/ /\ Raised
          /\ UNCHANGED file
    /\ UNCHANGED <<cycle, data, stdout, clock, interrupt_at, cpu_vars, mem_vars, ufw_vars>>

\* Line 254: json.dump writes the text in pieces into the buffered file; any
\* prefix may have reached the file when it returns.  A write error ends the
\* with block, which closes the file with whatever reached it.
Dump ==
    /\ pc = "dump"
    /\ \E reached \in {"empty", "partial"} : file' = FileOf(cycle, reached)
    /\ \/ pc' = "close" /\ UNCHANGED history
       \/ Raised
    /\ UNCHANGED <<cycle, data, stdout, clock, interrupt_at, cpu_vars, mem_vars, ufw_vars>>

\* The end of the with block: the rest of the buffer is flushed and the file
\* closed, or the flush raises.
Close ==
    /\ pc = "close"
    /\ \/ /\ file' = FileOf(cycle, "complete")
          /\ pc' = "sleep"
          /\ history' = Append(history, "published")
       \/ /\ \E reached \in {file.content, "partial"} : file' = FileOf(cycle, reached)
          /\ Raised
    /\ UNCHANGED <<cycle, data, stdout, clock, interrupt_at, cpu_vars, mem_vars, ufw_vars>>

\* Line 257.
Sleep ==
    /\ pc = "sleep"
    /\ clock' = clock + REFRESH_INTERVAL
    /\ pc' = "cpu"
    /\ UNCHANGED <<cycle, data, file, stdout, history, interrupt_at,
                   cpu_vars, mem_vars, ufw_vars>>

\* The except clause of line 261 with "raise" after its message: the error
\* leaves main().
ExceptPrint_Reraise ==
    /\ pc = "except"
    /\ stdout' = Append(stdout, "error")
    /\ pc' = "crashed"
    /\ UNCHANGED <<cycle, data, file, clock, history, interrupt_at,
                   cpu_vars, mem_vars, ufw_vars>>

\* Line 262.
ExceptPrint ==
    /\ pc = "except"
    /\ stdout' = Append(stdout, "error")
    /\ pc' = "except_sleep"
    /\ UNCHANGED <<cycle, data, file, clock, history, interrupt_at,
                   cpu_vars, mem_vars, ufw_vars>>

\* Line 263.
ExceptSleep ==
    /\ pc = "except_sleep"
    /\ clock' = clock + REFRESH_INTERVAL
    /\ pc' = "cpu"
    /\ UNCHANGED <<cycle, data, file, stdout, history, interrupt_at,
                   cpu_vars, mem_vars, ufw_vars>>

\* KeyboardInterrupt is not an Exception: no probe catches it.  Raised inside
\* the try block it reaches line 258.  During get_cpu_info it comes before or
\* after the assignment of line 45; during the write, the with block closes
\* the file with whatever reached it.
InterruptInTry ==
    /\ pc \in TryPoints
    /\ pc = "cpu" => cycle < MaxCycles
    /\ interrupt_at' = pc
    /\ pc' = "kbd"
    /\ IF pc = "cpu"
       THEN \E read \in SchedStatReads :
               \/ UNCHANGED <<prev_cpu_times, cpu_last_parsed>>
               \/ /\ SampleParsed(read)
                  /\ prev_cpu_times' = ParsedSample(read)
                  /\ cpu_last_parsed' = ParsedSample(read)
       ELSE UNCHANGED <<prev_cpu_times, cpu_last_parsed>>
    /\ IF pc = "open" THEN file' \in {file, FileOf(cycle, "empty")}
       ELSE IF pc = "dump" THEN file' \in {FileOf(cycle, "empty"), FileOf(cycle, "partial")}
       ELSE IF pc = "close" THEN file' \in {FileOf(cycle, file.content),
                                            FileOf(cycle, "partial"),
                                            FileOf(cycle, "complete")}
       ELSE UNCHANGED file
    /\ UNCHANGED <<cycle, data, stdout, clock, history, cpu_result, cpu_call, cpu_any_ok,
                   mem_vars, ufw_vars>>

\* Lines 259-260: the message, then break; main() returns.
KbdPrint ==
    /\ pc = "kbd"
    /\ stdout' = Append(stdout, "stopping")
    /\ pc' = "stopped"
    /\ UNCHANGED <<cycle, data, file, clock, history, interrupt_at,
                   cpu_vars, mem_vars, ufw_vars>>

\* Outside the try block - line 235, and the two except clauses, whose
\* exceptions no clause of the same try statement handles - KeyboardInterrupt
\* leaves main() as an uncaught exception.
OutsideTry == {"start", "except", "except_sleep", "kbd"}

InterruptOutsideTry ==
    /\ pc \in OutsideTry
    /\ interrupt_at' = pc
    /\ pc' = "crashed"
    /\ UNCHANGED <<cycle, data, file, stdout, clock, history, cpu_vars, mem_vars, ufw_vars>>

(***************************************************************************)
(* Specifications                                                          *)
(***************************************************************************)
CpuInit ==
    /\ prev_cpu_times = NoSample
    /\ cpu_result = CpuNotCalled
    /\ cpu_call = NoCall
    /\ cpu_any_ok = FALSE
    /\ cpu_last_parsed = NoSample

NoMemRead == [kind |-> "ioerror", has_total |-> FALSE, total_kb |-> 0,
              has_avail |-> FALSE, avail_kb |-> 0]
NoUfwInput == [status |-> "inactive", dmesg |-> "nomatch", log |-> << >>]

MainInit ==
    /\ pc = "start"
    /\ cycle = 0
    /\ data = NoData
    /\ file = NoFile
    /\ stdout = << >>
    /\ clock = 0
    /\ history = << >>
    /\ interrupt_at = "none"

\* main() from process start.
Init ==
    /\ CpuInit
    /\ mem_read = NoMemRead /\ mem_result = MemNotCalled
    /\ ufw_in = NoUfwInput /\ ufw_result = UfwNotCalled
    /\ MainInit

Next ==
    \/ Start
    \/ ProbeCpu
    \/ ProbeMemory
    \/ \E key \in SimpleProbes : ProbeSimple(key)
    \/ ProbeServices
    \/ ProbeDocker
    \/ ProbeUfw
    \/ Open
    \/ Dump
    \/ Close
    \/ Sleep
    \/ ExceptPrint
    \/ ExceptSleep
    \/ InterruptInTry
    \/ KbdPrint
    \/ InterruptOutsideTry

Spec == Init /\ [][Next]_vars

\* get_cpu_info() called again and again.
SpecCpu == Init /\ [][CpuStep]_vars

\* get_memory_info() on every read.
MemInit ==
    /\ CpuInit
    /\ mem_read \in MemReads /\ mem_result = MemNotCalled
    /\ ufw_in = NoUfwInput /\ ufw_result = UfwNotCalled
    /\ MainInit

SpecMem == MemInit /\ [][CallGetMemoryInfo]_vars

\* get_ufw_stats() on every input.
UfwInit ==
    /\ CpuInit
    /\ mem_read = NoMemRead /\ mem_result = MemNotCalled
    /\ ufw_in \in UfwInputs /\ ufw_result = UfwNotCalled
    /\ MainInit

SpecUfw == UfwInit /\ [][CallGetUfwStats]_vars

\* The process is scheduled and every statement of main() returns: a step
\* that main() can take is taken.  KeyboardInterrupt is never owed.
Progress ==
    \/ Start \/ ProbeCpu \/ ProbeMemory \/ (\E key \in SimpleProbes : ProbeSimple(key))
    \/ ProbeServices \/ ProbeDocker \/ ProbeUfw \/ Open \/ Dump \/ Close \/ Sleep
    \/ ExceptPrint \/ ExceptSleep \/ KbdPrint

FairSpec == Spec /\ WF_vars(Progress)

(***************************************************************************)
(* Properties                                                              *)
(***************************************************************************)
ZeroUsage == [na |-> FALSE, neg |-> FALSE, tenths |-> 0]
total_delta == cpu_call.sample.total - cpu_call.before.total
idle_delta == cpu_call.sample.idle - cpu_call.before.idle

\* C1 (as claimed): whenever a reader opens the output file it finds a
\* complete snapshot - the previous one or the new one - never an empty or
\* partly written file.
C1_ReaderSeesCompleteSnapshot ==
    file.exists => file.content = "complete"

\* C2 (as claimed): whenever get_cpu_info() returns the failure result, for
\* whatever reason, prev_cpu_times is what it was before the call.
C2_FailureKeepsPrev ==
    (cpu_call.kind # "none" /\ cpu_result.usage.na) => prev_cpu_times = cpu_call.before

\* C2 (amended): a call that fails before the sample is complete (line
\* unreadable, malformed, too few counters) returns the failure result and
\* leaves prev_cpu_times as it was; a call whose model-name or core-count
\* query fails returns the failure result with prev_cpu_times already set
\* to the sample it read.
C2_EarlyFailureKeepsPrev ==
    /\ cpu_call.kind = "early_fail" =>
          cpu_result = CpuFailure /\ prev_cpu_times = cpu_call.before
    /\ cpu_call.kind = "late_fail" =>
          cpu_result = CpuFailure /\ prev_cpu_times = cpu_call.sample

C2_Witness ==
    /\ cpu_call.kind = "early_fail"
    /\ cpu_call.before.set
    /\ prev_cpu_times = cpu_call.before

\* C3: an error raised by the aggregation or the publishing of an iteration
\* goes to the except clause of the loop, which prints its message and then
\* sleeps REFRESH_INTERVAL before the next iteration; main() leaves the loop
\* only on a KeyboardInterrupt; and after a caught error, unless an
\* interrupt comes, the following iteration runs to its end (published, or a
\* further error).
C3_SchedulerSurvives ==
    /\ [][ /\ history' # history /\ history'[Len(history')] = "error" =>
                pc \in TryPoints /\ pc' = "except"
           /\ pc = "except" /\ pc' # "except" =>
                \/ pc' = "except_sleep" /\ stdout' = Append(stdout, "error")
                \/ interrupt_at' = "except" /\ pc' = "crashed"
           /\ pc = "except_sleep" /\ pc' # "except_sleep" =>
                \/ pc' = "cpu" /\ clock' = clock + REFRESH_INTERVAL
                \/ interrupt_at' = "except_sleep" /\ pc' = "crashed"
           /\ pc' \in {"kbd", "crashed"} /\ pc' # pc => interrupt_at' = pc
           /\ pc' = "stopped" /\ pc # "stopped" => pc = "kbd"
         ]_vars
    /\ \A n \in 0..MaxCycles :
          (pc = "except" /\ Len(history) = n /\ cycle < MaxCycles)
             ~> (Len(history) = n + 1 \/ pc \in {"kbd", "crashed", "stopped"})

C3_Witness ==
    /\ Len(history) >= 2
    /\ history[Len(history) - 1] = "error"
    /\ history[Len(history)] = "published"
    /\ file = FileOf(cycle, "complete")
    /\ clock >= REFRESH_INTERVAL

\* C4 (as claimed): a KeyboardInterrupt that comes during the probing, the
\* file write, the sleep after a publish or the sleep after a caught error
\* takes the clean shutdown path, never out of main() uncaught.
C4_InterruptShutsDownCleanly ==
    interrupt_at \in TryPoints \cup {"except_sleep"} => pc \in {"kbd", "stopped"}

\* C5 (as claimed): whichever probes fail internally, the iteration
\* assembles a snapshot with exactly the nine keys: once the evaluation of
\* the probes has ended, every key has a value.
C5_NineKeysDespiteFailures ==
    pc \in WritePoints \cup {"sleep", "except", "except_sleep"} =>
        DOMAIN data = ProbePoints

\* C6: the usage that get_cpu_info() returns is "N/A" or a percentage
\* between 0.0 and 100.0; a call that returns normally returns a
\* percentage.
C6_UsageInRange ==
    cpu_call.kind # "none" =>
        /\ cpu_result.usage.na \/ (~cpu_result.usage.neg /\ cpu_result.usage.tenths \in 0..1000)
        /\ cpu_call.kind = "ok" => ~cpu_result.usage.na

C6_Witness ==
    /\ cpu_call.kind = "ok"
    /\ cpu_call.before.set
    /\ total_delta > 0
    /\ idle_delta < 0
    /\ cpu_result.usage = [na |-> FALSE, neg |-> FALSE, tenths |-> 1000]

\* C7 (as claimed): the first get_cpu_info() call that succeeds returns
\* "0.0%" and leaves prev_cpu_times set; a later successful call with
\* total_delta = 0 returns "0.0%".
C7_FirstSuccessIsZero ==
    /\ cpu_call.first_ok => cpu_result.usage = ZeroUsage /\ prev_cpu_times.set
    /\ (cpu_call.kind = "ok" /\ cpu_call.before.set /\ total_delta = 0) =>
          cpu_result.usage = ZeroUsage

\* C7 (amended): a successful call that finds prev_cpu_times unset returns
\* "0.0%" and leaves prev_cpu_times set to its sample; a successful call
\* with total_delta = 0 returns "0.0%".
C7_UnsetOrZeroDeltaIsZero ==
    /\ (cpu_call.kind = "ok" /\ ~cpu_call.before.set) =>
          /\ cpu_result.usage = ZeroUsage
          /\ prev_cpu_times.set
          /\ prev_cpu_times = cpu_call.sample
    /\ (cpu_call.kind = "ok" /\ cpu_call.before.set /\ total_delta = 0) =>
          cpu_result.usage = ZeroUsage

C7_Witness ==
    /\ cpu_call.first_ok
    /\ ~cpu_call.before.set
    /\ prev_cpu_times.set
    /\ cpu_result.usage = ZeroUsage

\* C9 (as claimed): on non-negative MemTotal and MemAvailable,
\* get_memory_info() does not raise; with total_mb > 0 its percent is
\* between 0 and 100, with total_mb = 0 it returns the default.
C9_MemoryPercentInRange ==
    (mem_result.called /\ mem_read.kind = "parsed" /\ mem_read.has_total) =>
        /\ ~mem_result.raised
        /\ mem_read.total_kb \div KbPerMb > 0 =>
              /\ ~mem_result.na
              /\ ~mem_result.percent.neg
              /\ mem_result.percent.tenths <= 1000
        /\ mem_read.total_kb \div KbPerMb = 0 => mem_result = MemDefault

\* C10: prev_cpu_times is unset while no call has read and parsed the
\* counter line, and otherwise is the sample of the latest call that did,
\* whatever that call returned; nothing else in main() changes it.
C10_PrevIsLastParsed ==
    prev_cpu_times = cpu_last_parsed

C10_Witness ==
    /\ pc = "sleep"
    /\ cycle = MaxCycles
    /\ "cpu" \in DOMAIN data /\ data["cpu"] = "default"
    /\ prev_cpu_times.set

\* The (ip, port) pair of a log line, for the lines that have both.
HasPair(line) == Search("SRC", line) # << >> /\ Search("DPT", line) # << >>
PairOf(line) == << Search("SRC", line), Search("DPT", line) >>

PairLines(log) == { i \in 1..Len(log) : HasPair(log[i]) }
PairCount(log, pr) == Cardinality({ i \in PairLines(log) : PairOf(log[i]) = pr })
PairFirst(log, pr) ==
    CHOOSE i \in PairLines(log) :
        PairOf(log[i]) = pr /\ \A j \in PairLines(log) : PairOf(log[j]) = pr => i <= j
PortCount(log, port) == Cardinality({ i \in PairLines(log) : PairOf(log[i])[2] = port })

\* pr comes before qr: a higher count, or the same count and seen first.
RanksBefore(log, pr, qr) ==
    \/ PairCount(log, pr) > PairCount(log, qr)
    \/ PairCount(log, pr) = PairCount(log, qr) /\ PairFirst(log, pr) < PairFirst(log, qr)

MinOf(a, b) == IF a < b THEN a ELSE b

\* C8 (as claimed): with the firewall active, top_blocked is the at most
\* ten (ip, port) pairs of the log with the highest counts, in descending
\* order of count, equal counts in order of first occurrence, each with its
\* exact count; ports is the at most ten ports with the highest counts.
C8_TopBlockedIsTopTen ==
    (ufw_result.called /\ ufw_in.status = "active" /\ ufw_in.dmesg = "lines") =>
        LET log == ufw_in.log
            pairs == { PairOf(log[i]) : i \in PairLines(log) }
            allports == { pr[2] : pr \in pairs }
            tb == ufw_result.top_blocked
            ps == ufw_result.ports
            shown == { <<tb[i].ip, tb[i].port>> : i \in 1..Len(tb) }
            shownports == { ps[i].key : i \in 1..Len(ps) }
        IN  /\ ufw_result.active
            /\ Len(tb) = MinOf(TopN, Cardinality(pairs))
            /\ Cardinality(shown) = Len(tb)
            /\ shown \subseteq pairs
            /\ \A i \in 1..Len(tb) : tb[i].count = PairCount(log, <<tb[i].ip, tb[i].port>>)
            /\ \A i, j \in 1..Len(tb) :
                  i < j => RanksBefore(log, <<tb[i].ip, tb[i].port>>, <<tb[j].ip, tb[j].port>>)
            /\ \A pr \in shown, qr \in pairs \ shown : RanksBefore(log, pr, qr)
            /\ Len(ps) = MinOf(TopN, Cardinality(allports))
            /\ Cardinality(shownports) = Len(ps)
            /\ shownports \subseteq allports
            /\ \A i \in 1..Len(ps) : ps[i].count = PortCount(log, ps[i].key)
            /\ \A pt \in shownports, qt \in allports \ shownports :
                  PortCount(log, pt) >= PortCount(log, qt)

=============================================================================
